---- MODULE Spec2Model ----
(***************************************************************************)
(* State-machine model of the task hierarchy and scheduling engine of      *)
(* src/main.py: the Task entity, the TaskManager facade (create, update,   *)
(* move, delete, mark completed, lifecycle pass, schedule, unschedule,     *)
(* save, load), the queries over it (children, roots, search, notes        *)
(* shortlist) and the notes panel's commit and restore.                    *)
(*                                                                         *)
(* Python dicts keep insertion order, and the code depends on it           *)
(* (tasks.values() feeds the stable sort, json.dump writes keys in order), *)
(* so a dict is modelled as a sequence of <<key, value>> pairs with        *)
(* unique keys.  Time is an integer number of seconds since a Monday       *)
(* 00:00; a datetime's isoformat()/fromisoformat() pair is lossless, so a  *)
(* stored date is the second count itself.                                 *)
(***************************************************************************)
EXTENDS Integers, Sequences, FiniteSets, TLC

VARIABLES
    tasks,      \* TaskManager.tasks: ordered dict  id -> Task
    schedule,   \* TaskManager.schedule: ordered dict  date -> (ordered dict slot -> task id)
    next_id,    \* TaskManager.next_id
    file,       \* data_file (tasks.json): NoFile or <<the dumped aggregate>>
    notesFiles, \* the notes folder: ordered dict  id -> text of <id>.txt
    now,        \* the wall clock read by datetime.now()
    writable,   \* whether open(data_file, 'w') succeeds at the moment
    last        \* the last call made on the TaskManager: its name, arguments, outcome

vars == <<tasks, schedule, next_id, file, notesFiles, now, writable, last>>

----------------------------------------------------------------------------
(* Bounds of the model *)

\* the hierarchy specification stops the clock at this second
MaxNow == 2
\* create_task calls in one run of the hierarchy specification
MaxCreates == 3
\* the lifecycle specification's clock covers the days 0..MaxDay
MaxDay == 23
\* the schedule specification uses the slots 0..MaxSlot of a day
MaxSlot == 0
\* and fills at most this many (date, slot) entries
MaxEntries == 2

----------------------------------------------------------------------------
(* Python values *)

None == "None"
\* the data file: <<>> while it does not exist, <<data>> once written
NoFile == <<>>
\* an optional date: <<>> is None, <<t>> is the date t
NoDate == <<>>

DayLen == 24 * 60 * 60

----------------------------------------------------------------------------
(* Ordered dicts: sequences of <<key, value>> pairs with unique keys *)

Keys(d) == {d[i][1] : i \in 1..Len(d)}

Has(d, k) == \E i \in 1..Len(d) : d[i][1] = k

IndexOf(d, k) == CHOOSE i \in 1..Len(d) : d[i][1] = k

Get(d, k) == d[IndexOf(d, k)][2]

\* d[k] = v: an existing key keeps its position, a new key goes last
Put(d, k, v) ==
    IF Has(d, k)
    THEN [d EXCEPT ![IndexOf(d, k)] = <<k, v>>]
    ELSE Append(d, <<k, v>>)

\* del d[k]
Del(d, k) ==
    LET i == IndexOf(d, k)
    IN  SubSeq(d, 1, i - 1) \o SubSeq(d, i + 1, Len(d))

\* a dict built from <<key, value>> pairs taken in order: a repeated key
\* keeps its first position and takes its last value
RECURSIVE FromPairs(_)
FromPairs(s) ==
    IF s = <<>> THEN <<>>
    ELSE Put(FromPairs(SubSeq(s, 1, Len(s) - 1)), s[Len(s)][1], s[Len(s)][2])

Reverse(s) == [i \in 1..Len(s) |-> s[Len(s) + 1 - i]]

----------------------------------------------------------------------------
(* Task *)

priority_order ==
    [Critical |-> 4, High |-> 3, Medium |-> 2, Low |-> 1]

\* self.priority_order.get(task.priority, 2)
PriorityRank(p) ==
    IF p \in DOMAIN priority_order THEN priority_order[p] ELSE 2

\* Task.__init__: dirty and futureSlotCount ignore their arguments;
\* created_date falls back to the clock
TaskInit(id, title, parent_id, description, priority, tags, created_date, completed_date, state, notes, summary, clock) ==
    [id |-> id, title |-> title, parent_id |-> parent_id,
     description |-> description, priority |-> priority, tags |-> tags,
     created_date |-> IF created_date = NoDate THEN clock ELSE created_date[1],
     completed_date |-> completed_date, state |-> state, notes |-> notes,
     dirty |-> FALSE, futureSlotCount |-> 0, summary |-> summary]

\* Task(newId, title, parent_id, priority=...) as create_task builds it
NewTask(id, title, parent_id, priority, clock) ==
    TaskInit(id, title, parent_id, "", priority, <<>>, NoDate, NoDate,
             "active", "", <<>>, clock)

\* Task.to_dict
to_dict(t) ==
    [id |-> t.id, title |-> t.title, parent_id |-> t.parent_id,
     description |-> t.description, priority |-> t.priority, tags |-> t.tags,
     created_date |-> t.created_date, completed_date |-> t.completed_date,
     state |-> t.state, notes |-> t.notes, dirty |-> t.dirty,
     futureSlotCount |-> t.futureSlotCount, summary |-> t.summary]

\* readFromFile(id): the text of the notes file, '' when there is none
readFromFile(id) ==
    IF Has(notesFiles, id) THEN Get(notesFiles, id) ELSE ""

\* Task.from_dict: Task(**data), then the notes come from the notes folder
from_dict(data, clock) ==
    [TaskInit(data.id, data.title, data.parent_id, data.description,
              data.priority, data.tags, <<data.created_date>>,
              data.completed_date, data.state, data.notes, data.summary,
              clock)
       EXCEPT !.notes = readFromFile(data.id)]

----------------------------------------------------------------------------
(* Persistence *)

\* a slot is an int or a str: [kind |-> "int" | "str", n |-> the number]
IntSlot(n) == [kind |-> "int", n |-> n]
StrSlot(n) == [kind |-> "str", n |-> n]

\* json.dump writes an int dict key as its decimal string
JsonKey(slot) == StrSlot(slot.n)

\* the slot -> task id object of one date as written: keys converted,
\* pairs in dict order, a repeated key written twice
DumpBucket(bucket) ==
    [i \in 1..Len(bucket) |-> <<JsonKey(bucket[i][1]), bucket[i][2]>>]

\* json.load of an object: a repeated key keeps its first position and
\* its last value
LoadBucket(pairs) == FromPairs(pairs)

\* the aggregate save_data writes
Dumped(ts, sch, nid) ==
    [tasks |-> [i \in 1..Len(ts) |-> to_dict(ts[i][2])],
     schedule |-> [i \in 1..Len(sch) |-> <<sch[i][1], DumpBucket(sch[i][2])>>],
     next_id |-> nid]

\* {t['id']: Task.from_dict(t) for t in data['tasks']}
LoadTasks(list, clock) ==
    FromPairs([i \in 1..Len(list) |-> <<list[i].id, from_dict(list[i], clock)>>])

LoadSchedule(objs) ==
    [i \in 1..Len(objs) |-> <<objs[i][1], LoadBucket(objs[i][2])>>]

----------------------------------------------------------------------------
(* Hierarchy queries *)

\* one step of the binary insertion sort list.sort runs on short lists:
\* x goes after every element whose key is <= its own
InsertByRank(sorted, x, ts) ==
    LET k == Cardinality({i \in 1..Len(sorted) :
                 PriorityRank(Get(ts, sorted[i]).priority)
                     <= PriorityRank(Get(ts, x).priority)})
    IN  SubSeq(sorted, 1, k) \o <<x>> \o SubSeq(sorted, k + 1, Len(sorted))

RECURSIVE SortAscending(_, _)
SortAscending(ids, ts) ==
    IF ids = <<>> THEN <<>>
    ELSE InsertByRank(SortAscending(SubSeq(ids, 1, Len(ids) - 1), ts),
                      ids[Len(ids)], ts)

\* a descending sort that reverses only once: equal keys come out reversed
SortByPriorityUnstable(ids, ts) == Reverse(SortAscending(ids, ts))

\* list.sort(key=rank, reverse=True): reverse, sort stably, reverse again
SortByPriority(ids, ts) == Reverse(SortAscending(Reverse(ids), ts))

\* a filter that also requires the parent to be a stored task: a task whose
\* parent_id dangles is in no list
FilterKnownParent(ts, parent_id) ==
    LET hit == {i \in 1..Len(ts) :
                  /\ ts[i][2].parent_id = parent_id
                  /\ (parent_id = None \/ Has(ts, parent_id))}
        nth[n \in 0..Len(ts)] ==
            IF n = 0 THEN <<>>
            ELSE IF n \in hit THEN Append(nth[n - 1], ts[n][1]) ELSE nth[n - 1]
    IN  nth[Len(ts)]

\* [t for t in tasks.values() if t.parent_id == parent_id], as dict keys
RECURSIVE Filter(_, _)
Filter(ts, parent_id) ==
    IF ts = <<>> THEN <<>>
    ELSE LET rest == Filter(SubSeq(ts, 1, Len(ts) - 1), parent_id)
             e == ts[Len(ts)]
         IN  IF e[2].parent_id = parent_id THEN Append(rest, e[1]) ELSE rest

\* the returned tasks are named by their dict keys (object identity)
get_children(ts, parent_id) == SortByPriority(Filter(ts, parent_id), ts)

get_root_tasks(ts) == SortByPriority(Filter(ts, None), ts)

----------------------------------------------------------------------------
(* Lifecycle *)

\* datetime.weekday(): Monday is 0; second 0 is a Monday 00:00
Weekday(t) == (t \div DayLen) % 7

\* an archive date that counts the days left after the completion day
ArchiveDateFromNextDay(completed) ==
    completed + ((6 - Weekday(completed)) + 7) * DayLen

\* an archive date at the end of the completion week
ArchiveDateThisWeek(completed) ==
    completed + (7 - Weekday(completed)) * DayLen

\* days_until_end_of_next_week = (7 - completed.weekday()) + 7
\* archive_date = completed + timedelta(days=days_until_end_of_next_week)
ArchiveDate(completed) ==
    completed + ((7 - Weekday(completed)) + 7) * DayLen

\* the comparison against one_year_ago = now - timedelta(days=365)
OlderThanOneYearAgo(created, clock) == created < clock - 365 * DayLen

\* (now - created).days > 365: timedelta.days is the floor of the difference
OlderThanAYear(created, clock) == (clock - created) \div DayLen > 365

\* a pass that tests for dormancy before it archives
check_old_task_dormant_first(t, clock) ==
    LET d == IF t.state = "archived" /\ OlderThanAYear(t.created_date, clock)
             THEN [t EXCEPT !.state = "dormant"]
             ELSE t
    IN  IF /\ d.state = "completed"
           /\ d.completed_date # NoDate
           /\ clock > ArchiveDate(d.completed_date[1])
        THEN [d EXCEPT !.state = "archived"]
        ELSE d

\* a pass that takes a dormant task created within the year back to
\* archived
check_old_task_reviving(t, clock) ==
    LET a == IF /\ t.state = "completed"
                /\ t.completed_date # NoDate
                /\ clock > ArchiveDate(t.completed_date[1])
             THEN [t EXCEPT !.state = "archived"]
             ELSE t
    IN  IF a.state \in {"archived", "dormant"}
        THEN [a EXCEPT !.state = IF OlderThanAYear(a.created_date, clock)
                                 THEN "dormant" ELSE "archived"]
        ELSE a

\* the body of the loop of check_old_tasks for one task
check_old_task(t, clock) ==
    LET a == IF /\ t.state = "completed"
                /\ t.completed_date # NoDate
                /\ clock > ArchiveDate(t.completed_date[1])
             THEN [t EXCEPT !.state = "archived"]
             ELSE t
    IN  IF a.state = "archived" /\ OlderThanAYear(a.created_date, clock)
        THEN [a EXCEPT !.state = "dormant"]
        ELSE a

\* a load that does not run the pass
Unchecked(ts, clock) == ts

\* for task in self.tasks.values(): ...
Checked(ts, clock) ==
    [i \in 1..Len(ts) |-> <<ts[i][1], check_old_task(ts[i][2], clock)>>]

----------------------------------------------------------------------------
(* Inputs *)

\* now.strftime('%y%m%d_%H%M%S'): the text of the clock's second (the
\* two-digit year repeats only after a century, beyond every bound here)
NewId(clock) == ToString(clock)

\* every id create_task can produce within MaxNow; one that is not in the
\* store at the time of a call is an unknown id
IdArgs == {NewId(t) : t \in 0..MaxNow}
\* parents: a root, and the two oldest ids (enough for a chain of three,
\* a cycle, a self-parent and a dangling reference)
ParentArgs == {None, NewId(0), NewId(1)}
PriorityArgs == {"Low", "Critical"}
\* for the ordering: three ranks, Medium's also through a value outside the
\* enumeration, under the root and one parent
OrderParentArgs == {None, NewId(0)}
OrderPriorityArgs == {"Low", "Medium", "Critical", "Urgent"}
TitleArgs == {"t"}
\* these specifications save on every update
SaveArgs == {TRUE}

----------------------------------------------------------------------------
(* Operations of the TaskManager *)

\* the file after a save_data that wrote: the whole aggregate is rewritten
Saved(ts, sch, nid) == <<Dumped(ts, sch, nid)>>

\* save_data has no try: when open(self.data_file, 'w') raises, the file
\* stays as it was and the OSError leaves save_data and the calling method
save_data(ts, sch, nid) == IF writable THEN Saved(ts, sch, nid) ELSE file

SaveRaised == IF writable THEN None ELSE "OSError"

Tick ==
    /\ now < MaxNow
    /\ now' = now + 1
    /\ last' = [op |-> "tick"]
    /\ UNCHANGED <<tasks, schedule, next_id, file, notesFiles, writable>>

create_task(title, parent_id, priority) ==
    LET newId == NewId(now)
        task == NewTask(newId, title, parent_id, priority, now)
    IN  /\ next_id <= MaxCreates
        /\ tasks' = Put(tasks, newId, task)
        /\ next_id' = next_id + 1
        /\ file' = save_data(tasks', schedule, next_id')
        /\ last' = [op |-> "create_task", ret |-> newId, title |-> title,
                    raised |-> SaveRaised]
        /\ UNCHANGED <<schedule, notesFiles, now, writable>>

\* if hasattr(task, key): setattr(task, key, value), for the one keyword
\* the call carries; the attributes of a Task are the fields of its record
SetAttr(t, key, value) ==
    IF key \in DOMAIN t THEN [t EXCEPT ![key] = value] ELSE t

update_task(task_id, save, key, value) ==
    /\ IF Has(tasks, task_id)
       THEN /\ tasks' = Put(tasks, task_id, SetAttr(Get(tasks, task_id), key, value))
            /\ file' = IF save THEN save_data(tasks', schedule, next_id) ELSE file
       ELSE UNCHANGED <<tasks, file>>
    /\ last' = [op |-> "update_task", id |-> task_id,
                raised |-> IF Has(tasks, task_id) /\ save
                           THEN SaveRaised ELSE None]
    /\ UNCHANGED <<schedule, next_id, notesFiles, now, writable>>

\* self.tasks[task_id] raises KeyError for an unknown id
move_tasks(task_id, oldParent, newParent) ==
    /\ IF Has(tasks, task_id)
       THEN /\ tasks' = Put(tasks, task_id,
                            [Get(tasks, task_id) EXCEPT !.parent_id = newParent])
            /\ file' = save_data(tasks', schedule, next_id)
            /\ last' = [op |-> "move_tasks", id |-> task_id,
                        newParent |-> newParent, raised |-> SaveRaised]
       ELSE /\ UNCHANGED <<tasks, file>>
            /\ last' = [op |-> "move_tasks", id |-> task_id,
                        newParent |-> newParent, raised |-> "KeyError"]
    /\ UNCHANGED <<schedule, next_id, notesFiles, now, writable>>

\* a delete that forgets its children: they keep the deleted parent_id
OrphanedNobody(ts, task_id) == ts

\* the children of task_id become roots, then the record is removed
Orphaned(ts, task_id) ==
    [i \in 1..Len(ts) |->
        IF ts[i][2].parent_id = task_id
        THEN <<ts[i][1], [ts[i][2] EXCEPT !.parent_id = None]>>
        ELSE ts[i]]

delete_task(task_id) ==
    /\ IF Has(tasks, task_id)
       THEN /\ tasks' = Del(Orphaned(tasks, task_id), task_id)
            /\ file' = save_data(tasks', schedule, next_id)
       ELSE UNCHANGED <<tasks, file>>
    /\ last' = [op |-> "delete_task", id |-> task_id,
                orphans |-> {k \in Keys(tasks) :
                               Get(tasks, k).parent_id = task_id},
                raised |-> IF Has(tasks, task_id) THEN SaveRaised ELSE None]
    /\ UNCHANGED <<schedule, next_id, notesFiles, now, writable>>

StatesOf(ts) == [i \in 1..Len(ts) |-> ts[i][2].state]

\* the pass changes the tasks in memory and does not save
check_old_tasks ==
    /\ tasks' = Checked(tasks, now)
    /\ last' = [op |-> "check_old_tasks", was |-> StatesOf(tasks)]
    /\ UNCHANGED <<schedule, next_id, file, notesFiles, now, writable>>

\* a start of the program: TaskManager() reads the file, then runs the pass
load_data ==
    /\ IF file # NoFile
       THEN /\ tasks' = Checked(LoadTasks(file[1].tasks, now), now)
            /\ schedule' = LoadSchedule(file[1].schedule)
            /\ next_id' = file[1].next_id
       ELSE /\ tasks' = Checked(tasks, now)
            /\ UNCHANGED <<schedule, next_id>>
    /\ last' = [op |-> "load_data"]
    /\ UNCHANGED <<file, notesFiles, now, writable>>

mark_completed(task_id) ==
    /\ IF Has(tasks, task_id)
       THEN /\ tasks' = Put(tasks, task_id,
                            [Get(tasks, task_id) EXCEPT
                                !.state = "completed",
                                !.completed_date = <<now>>])
            /\ file' = save_data(tasks', schedule, next_id)
       ELSE UNCHANGED <<tasks, file>>
    /\ last' = [op |-> "mark_completed", id |-> task_id,
                raised |-> IF Has(tasks, task_id) THEN SaveRaised ELSE None]
    /\ UNCHANGED <<schedule, next_id, notesFiles, now, writable>>

\* date if isinstance(date, str) else date.toString("yyyy-MM-dd"): a date
\* argument is [kind |-> "str" | "QDate", iso |-> its yyyy-MM-dd text]
date_str(date) == date.iso

\* a schedule_task that starts the date's bucket afresh on every call
FreshBucket(sch, ds) == Put(sch, ds, <<>>)

\* if date_str not in self.schedule: self.schedule[date_str] = {}
EnsureBucket(sch, ds) == IF Has(sch, ds) THEN sch ELSE Put(sch, ds, <<>>)

\* an assignment that first takes the task out of every slot it occupies
ScheduledMoving(sch, ds, slot, task_id) ==
    LET cleared == [i \in 1..Len(sch) |->
                       <<sch[i][1],
                         SelectSeq(sch[i][2], LAMBDA e : e[2] # task_id)>>]
        s1 == EnsureBucket(cleared, ds)
    IN  Put(s1, ds, Put(Get(s1, ds), slot, task_id))

\* self.schedule[date_str][slot] = task_id
Scheduled(sch, ds, slot, task_id) ==
    LET s1 == EnsureBucket(sch, ds)
    IN  Put(s1, ds, Put(Get(s1, ds), slot, task_id))

\* del self.schedule[date_str][slot], when the date and the slot are there
Unscheduled(sch, ds, slot) ==
    IF Has(sch, ds) /\ Has(Get(sch, ds), slot)
    THEN Put(sch, ds, Del(Get(sch, ds), slot))
    ELSE sch

\* the task id at (date, slot), None when there is none
Occupant(sch, ds, slot) ==
    IF Has(sch, ds) /\ Has(Get(sch, ds), slot)
    THEN Get(Get(sch, ds), slot)
    ELSE None

\* the number of (date, slot) entries
RECURSIVE Entries(_)
Entries(sch) ==
    IF sch = <<>> THEN 0
    ELSE Len(sch[Len(sch)][2]) + Entries(SubSeq(sch, 1, Len(sch) - 1))

schedule_task(task_id, date, slot) ==
    /\ schedule' = Scheduled(schedule, date_str(date), slot, task_id)
    /\ Entries(schedule') <= MaxEntries
    /\ file' = save_data(tasks, schedule', next_id)
    /\ last' = [op |-> "schedule_task", id |-> task_id,
                date |-> date_str(date), slot |-> slot,
                replaced |-> Occupant(schedule, date_str(date), slot),
                raised |-> SaveRaised]
    /\ UNCHANGED <<tasks, next_id, notesFiles, now, writable>>

unschedule_task(date, slot) ==
    /\ schedule' = Unscheduled(schedule, date_str(date), slot)
    /\ file' = IF Has(schedule, date_str(date))
                    /\ Has(Get(schedule, date_str(date)), slot)
               THEN save_data(tasks, schedule', next_id)
               ELSE file
    /\ last' = [op |-> "unschedule_task", date |-> date_str(date),
                slot |-> slot,
                replaced |-> Occupant(schedule, date_str(date), slot),
                raised |-> IF Occupant(schedule, date_str(date), slot) # None
                           THEN SaveRaised ELSE None]
    /\ UNCHANGED <<tasks, next_id, notesFiles, now, writable>>

\* writeToFile(id, txt): the notes file <id>.txt is rewritten
writeToFile(files, id, txt) == Put(files, id, txt)

\* MainWindow.getNotesFileName, for the selected task
getNotesFileName(t) == t.title \o "_" \o t.id

\* the notes panel shows the selected task (a stored one): every edit of
\* the text goes into the task, unsaved, and marks it dirty
on_notes_changed(task_id, txt) ==
    /\ Has(tasks, task_id)
    /\ tasks' = Put(tasks, task_id,
                    SetAttr(SetAttr(Get(tasks, task_id), "notes", txt),
                            "dirty", TRUE))
    /\ last' = [op |-> "on_notes_changed", id |-> task_id]
    /\ UNCHANGED <<schedule, next_id, file, notesFiles, now, writable>>

\* the text of the panel is the selected task's notes (on_notes_changed
\* keeps them equal); it is written to the notes file
commitNotes(task_id) ==
    /\ Has(tasks, task_id)
    /\ LET t == Get(tasks, task_id)
       IN  /\ notesFiles' = writeToFile(notesFiles, getNotesFileName(t), t.notes)
           /\ tasks' = Put(tasks, task_id, [t EXCEPT !.dirty = FALSE])
           /\ last' = [op |-> "commitNotes", id |-> task_id, txt |-> t.notes]
    /\ UNCHANGED <<schedule, next_id, file, now, writable>>

\* setPlainText(txt) fires on_notes_changed, then dirty is cleared
restoreNotes(task_id) ==
    /\ Has(tasks, task_id)
    /\ LET t == Get(tasks, task_id)
           txt == readFromFile(getNotesFileName(t))
       IN  /\ tasks' = Put(tasks, task_id,
                           [t EXCEPT !.notes = txt, !.dirty = FALSE])
           /\ last' = [op |-> "restoreNotes", id |-> task_id, txt |-> txt]
    /\ UNCHANGED <<schedule, next_id, file, notesFiles, now, writable>>

----------------------------------------------------------------------------
(* Search and the notes shortlist *)

\* the characters of a str, for the texts used here
Letters(s) ==
    CASE s = "" -> <<>>
      [] s = "t" -> <<"t">>
      [] s = "c" -> <<"c">>
      [] s = "B" -> <<"B">>
      [] s = "Ab" -> <<"A", "b">>
      [] s = "aB" -> <<"a", "B">>
      [] s = "Bc" -> <<"B", "c">>
      [] s = "ab" -> <<"a", "b">>
      [] s = "bc" -> <<"b", "c">>
      [] s = "ba" -> <<"b", "a">>

\* str.lower(), character by character
LowerChar(c) ==
    CASE c = "A" -> "a"
      [] c = "B" -> "b"
      [] c = "C" -> "c"
      [] OTHER -> c

Lower(cs) == [i \in 1..Len(cs) |-> LowerChar(cs[i])]

\* needle in hay, for two strs
Contains(needle, hay) ==
    \E o \in 0..(Len(hay) - Len(needle)) :
        SubSeq(hay, o + 1, o + Len(needle)) = needle

\* a test that does not look at the description
MatchesTitleAndNotes(t, keyword) ==
    \/ Contains(Lower(Letters(keyword)), Lower(Letters(t.title)))
    \/ Contains(Lower(Letters(keyword)), Lower(Letters(t.notes)))

\* keyword.lower() in task.title.lower() or ... task.notes.lower() or
\* ... task.description.lower()
Matches(t, keyword) ==
    \/ Contains(Lower(Letters(keyword)), Lower(Letters(t.title)))
    \/ Contains(Lower(Letters(keyword)), Lower(Letters(t.notes)))
    \/ Contains(Lower(Letters(keyword)), Lower(Letters(t.description)))

\* the loop of search_tasks over tasks.values(); the result names the
\* tasks by their dict keys
RECURSIVE Search(_, _, _)
Search(ts, keyword, include_dormant) ==
    IF ts = <<>> THEN <<>>
    ELSE LET rest == Search(SubSeq(ts, 1, Len(ts) - 1), keyword, include_dormant)
             e == ts[Len(ts)]
         IN  IF e[2].state = "dormant" /\ ~include_dormant THEN rest
             ELSE IF Matches(e[2], keyword) THEN Append(rest, e[1])
             ELSE rest

search_tasks(keyword, include_dormant) ==
    /\ last' = [op |-> "search_tasks", keyword |-> keyword,
                include_dormant |-> include_dormant,
                ret |-> Search(tasks, keyword, include_dormant)]
    /\ UNCHANGED <<tasks, schedule, next_id, file, notesFiles, now, writable>>

\* a range that leaves out its end
InRangeBeforeEnd(start, date, end) == start <= date /\ date < end

\* start <= created <= end
InRange(start, date, end) == start <= date /\ date <= end

\* the body of the loop of get_tasks_with_notes_in_range: whether the task
\* is appended
Shortlisted(t, start, end) ==
    IF t.notes # "" /\ t.state # "dormant"
    THEN IF InRange(start, t.created_date, end) THEN TRUE
         ELSE IF t.completed_date # NoDate
              THEN InRange(start, t.completed_date[1], end)
              ELSE FALSE
    ELSE FALSE

RECURSIVE NotesInRange(_, _, _)
NotesInRange(ts, start, end) ==
    IF ts = <<>> THEN <<>>
    ELSE LET rest == NotesInRange(SubSeq(ts, 1, Len(ts) - 1), start, end)
             e == ts[Len(ts)]
         IN  IF Shortlisted(e[2], start, end) THEN Append(rest, e[1]) ELSE rest

\* start_date and end_date are datetimes, or isoformat strings that
\* fromisoformat turns into them without loss
get_tasks_with_notes_in_range(start_date, end_date) ==
    /\ last' = [op |-> "get_tasks_with_notes_in_range",
                start |-> start_date, end |-> end_date,
                ret |-> NotesInRange(tasks, start_date, end_date)]
    /\ UNCHANGED <<tasks, schedule, next_id, file, notesFiles, now, writable>>

----------------------------------------------------------------------------
(* The hierarchy specification: an empty store, then any calls, and a     *)
(* reload of the file at any time                                          *)

Init ==
    /\ tasks = <<>>
    /\ schedule = <<>>
    /\ next_id = 1
    /\ file = NoFile
    /\ notesFiles = <<>>
    /\ now = 0
    /\ writable = TRUE
    /\ last = [op |-> "init"]

CreateTaskOf(parents, priorities) ==
    \E title \in TitleArgs, parent_id \in parents, priority \in priorities :
        create_task(title, parent_id, priority)

UpdateTaskOf(parents, priorities) ==
    \E task_id \in IdArgs, save \in SaveArgs :
        \/ \E p \in priorities : update_task(task_id, save, "priority", p)
        \/ \E p \in parents : update_task(task_id, save, "parent_id", p)
        \/ update_task(task_id, save, "colour", "red")

MoveTasksOf(parents) ==
    \E task_id \in IdArgs, newParent \in parents :
        move_tasks(task_id, None, newParent)

DeleteTask == \E task_id \in IdArgs : delete_task(task_id)

Next ==
    \/ Tick
    \/ CreateTaskOf(ParentArgs, PriorityArgs)
    \/ UpdateTaskOf(ParentArgs, PriorityArgs)
    \/ MoveTasksOf(ParentArgs)
    \/ DeleteTask
    \/ load_data

Spec == Init /\ [][Next]_vars

\* the same calls with the arguments that exercise the ordering
NextOrder ==
    \/ Tick
    \/ CreateTaskOf(OrderParentArgs, OrderPriorityArgs)
    \/ UpdateTaskOf(OrderParentArgs, OrderPriorityArgs)
    \/ MoveTasksOf(OrderParentArgs)
    \/ DeleteTask
    \/ load_data

SpecOrder == Init /\ [][NextOrder]_vars

----------------------------------------------------------------------------
(* Claims about the hierarchy *)

\* the lists the two queries can be asked for: the roots and the children
\* of every id, stored or not
QueryArgs == IdArgs \cup {None}

Query(ts, p) == IF p = None THEN get_root_tasks(ts) ELSE get_children(ts, p)

RankOf(ts, k) == PriorityRank(Get(ts, k).priority)

\* C1: get_root_tasks() and get_children(p) return their tasks in descending
\* priority rank, and two returned tasks of equal rank come in the order in
\* which they were inserted into the store.
C1_SortedStable ==
    \A p \in QueryArgs :
        LET r == Query(tasks, p)
        IN  \A i, j \in 1..Len(r) :
                i < j =>
                    /\ RankOf(tasks, r[i]) >= RankOf(tasks, r[j])
                    /\ RankOf(tasks, r[i]) = RankOf(tasks, r[j])
                           => IndexOf(tasks, r[i]) < IndexOf(tasks, r[j])

\* C1 witness: three roots inserted as Low, then two of Medium's rank (one of
\* them by a priority outside the enumeration), returned as the two ties in
\* insertion order and then the Low one.
C1_Witness ==
    /\ Len(tasks) = 3
    /\ \A i \in 1..3 : tasks[i][2].parent_id = None
    /\ tasks[1][2].priority = "Low"
    /\ tasks[2][2].priority = "Urgent"
    /\ tasks[3][2].priority = "Medium"
    /\ get_root_tasks(tasks) = <<tasks[2][1], tasks[3][1], tasks[1][1]>>

\* the number of places of list r that hold k
Count(r, k) == Cardinality({i \in 1..Len(r) : r[i] = k})

\* C2: for every task T of the store, the children query for T's parent
\* (get_root_tasks() when T.parent_id is None, get_children(T.parent_id)
\* otherwise) contains T exactly once.
C2_InParentsListOnce ==
    \A i \in 1..Len(tasks) :
        Count(Query(tasks, tasks[i][2].parent_id), tasks[i][1]) = 1

\* C2 witness: a store holding a root and a task whose parent_id names no
\* stored task.
C2_Witness ==
    /\ \E i \in 1..Len(tasks) : tasks[i][2].parent_id = None
    /\ \E i \in 1..Len(tasks) :
           /\ tasks[i][2].parent_id # None
           /\ ~Has(tasks, tasks[i][2].parent_id)

ParentOf(ts, k) == Get(ts, k).parent_id

\* C3: delete_task(id) on an existing task removes exactly that one record:
\* every task whose parent_id was id afterwards has parent_id = None and is
\* returned by get_root_tasks(), and every other task stays in the store
\* with its parent_id unchanged.
C3_DeleteReparents ==
    [][(last'.op = "delete_task" /\ Has(tasks, last'.id)) =>
          /\ Keys(tasks') = Keys(tasks) \ {last'.id}
          /\ \A k \in Keys(tasks') :
                IF ParentOf(tasks, k) = last'.id
                THEN /\ ParentOf(tasks', k) = None
                     /\ Count(get_root_tasks(tasks'), k) = 1
                ELSE ParentOf(tasks', k) = ParentOf(tasks, k)]_vars

\* C3 witness: a stored task with a child was deleted, and that child keeps
\* a child of its own.
C3_Witness ==
    /\ last.op = "delete_task"
    /\ ~Has(tasks, last.id)
    /\ \E c \in last.orphans :
           /\ Has(tasks, c)
           /\ ParentOf(tasks, c) = None
           /\ \E g \in Keys(tasks) : g # c /\ ParentOf(tasks, g) = c

\* the ancestor chain of k: k's parent, that task's parent, ... , walked
\* for at most n steps through stored tasks
RECURSIVE Ancestors(_, _, _)
Ancestors(ts, k, n) ==
    IF n = 0 \/ ~Has(ts, k) \/ ParentOf(ts, k) = None THEN {}
    ELSE {ParentOf(ts, k)} \cup Ancestors(ts, ParentOf(ts, k), n - 1)

\* newParent is task_id itself or one of its descendants
WouldCreateCycle(ts, task_id, newParent) ==
    /\ Has(ts, task_id)
    /\ \/ newParent = task_id
       \/ task_id \in Ancestors(ts, newParent, Len(ts))

\* C4: move_tasks of a task to itself or to one of its own descendants is
\* rejected: the call reports the would-create-cycle condition and every
\* task's parent_id is the same after the call as before it.
C4_CycleRejected ==
    [][(last'.op = "move_tasks"
          /\ WouldCreateCycle(tasks, last'.id, last'.newParent)) =>
          /\ last'.raised = "WouldCreateCycle"
          /\ \A k \in Keys(tasks) :
                Has(tasks', k) /\ ParentOf(tasks', k) = ParentOf(tasks, k)]_vars

\* C5: every create_task call returns a task whose id differs from the id
\* of every task already in the store, so the call adds one task to the
\* store and replaces none.
C5_FreshId ==
    [][last'.op = "create_task" =>
          /\ ~Has(tasks, last'.ret)
          /\ Len(tasks') = Len(tasks) + 1]_vars

----------------------------------------------------------------------------
(* The lifecycle specification: one stored task in any state, created      *)
(* recently or almost a year ago, completed at noon of any day of the      *)
(* first week, looked at around noon of any later day                      *)

Noon == 12 * 60 * 60
AtNoon(day) == day * DayLen + Noon

StateArgs == {"active", "completed", "archived", "dormant"}
CreatedArgs == {AtNoon(0 - 350), AtNoon(0)}
CompletedArgs == {NoDate} \cup {<<AtNoon(d)>> : d \in 0..6}
NowArgs == {AtNoon(d) + o : d \in 0..MaxDay, o \in {0 - 1, 0, 1}}

LifeTask(state, created, completed) ==
    TaskInit("0", "t", None, "", "Medium", <<>>, <<created>>, completed,
             state, "", <<>>, created)

InitLife ==
    /\ \E state \in StateArgs, created \in CreatedArgs,
          completed \in CompletedArgs :
          /\ completed # NoDate => created <= completed[1]
          /\ tasks = <<<<"0", LifeTask(state, created, completed)>>>>
    /\ schedule = <<>>
    /\ next_id = 2
    /\ file = Saved(tasks, schedule, next_id)
    /\ notesFiles = <<>>
    /\ now \in NowArgs
    /\ writable = TRUE
    /\ \A i \in 1..Len(tasks) :
          /\ tasks[i][2].created_date <= now
          /\ tasks[i][2].completed_date # NoDate
                => tasks[i][2].completed_date[1] <= now
    /\ last = [op |-> "init"]

\* the clock moves on by a second or by a day
TickLife ==
    /\ \E t \in {now + 1, now + DayLen} : t \in NowArgs /\ now' = t
    /\ last' = [op |-> "tick"]
    /\ UNCHANGED <<tasks, schedule, next_id, file, notesFiles, writable>>

MarkCompleted == \E task_id \in {"0", "1"} : mark_completed(task_id)

NextLife ==
    \/ TickLife
    \/ check_old_tasks
    \/ load_data
    \/ MarkCompleted

SpecLife == InitLife /\ [][NextLife]_vars

----------------------------------------------------------------------------
(* Claims about the lifecycle *)

\* C6: running the lifecycle pass twice with the same now leaves every task
\* in the same state as running it once: after a pass (called directly or
\* by load_data), and before the clock moves, another pass changes nothing.
C6_PassIdempotent ==
    last.op \in {"check_old_tasks", "load_data"} => Checked(tasks, now) = tasks

\* C6 witness: a pass has just taken a completed task out of state
\* completed.
C6_Witness ==
    /\ last.op = "check_old_tasks"
    /\ \E i \in 1..Len(tasks) :
           last.was[i] = "completed" /\ tasks[i][2].state # "completed"

\* the archive date in the claim's words: completed_date + (days remaining
\* in the completion week) + 7 days
DaysRemainingInWeek(t) == 7 - Weekday(t)
ClaimedArchiveDate(t) == t + (DaysRemainingInWeek(t) + 7) * DayLen

Wednesday == AtNoon(2)
FollowingSaturday == AtNoon(5)
WednesdayThreeWeeksLater == AtNoon(2 + 21)

\* the stored tasks a pass found completed with a completed_date
CompletedBefore(i) ==
    /\ i \in 1..Len(tasks)
    /\ tasks[i][2].state = "completed"
    /\ tasks[i][2].completed_date # NoDate

\* C7, as claimed: a pass changes a completed task's state to archived
\* exactly when now > completed_date + (days remaining in the completion
\* week) + 7 days; a task completed on a Wednesday is archived when
\* evaluated on the Wednesday three weeks later.
C7_ArchivedExactlyWhenDue ==
    [][last'.op = "check_old_tasks" =>
          \A i \in 1..Len(tasks) :
              CompletedBefore(i) =>
                  /\ tasks'[i][2].state = "archived"
                        <=> now > ClaimedArchiveDate(tasks[i][2].completed_date[1])
                  /\ (tasks[i][2].completed_date[1] = Wednesday
                        /\ now = FollowingSaturday)
                        => tasks'[i][2].state = "completed"
                  /\ (tasks[i][2].completed_date[1] = Wednesday
                        /\ now = WednesdayThreeWeeksLater)
                        => tasks'[i][2].state = "archived"]_vars

\* C7, amended: a pass takes a completed task out of state completed exactly
\* when now > completed_date + (days remaining in the completion week) + 7
\* days, and then leaves it archived, or dormant when 366 days or more lie
\* between created_date and now; a task completed on a Wednesday is still
\* completed on the following Saturday and past completed on the Wednesday
\* three weeks later.
C7_LeavesCompletedExactlyWhenDue ==
    [][last'.op = "check_old_tasks" =>
          \A i \in 1..Len(tasks) :
              CompletedBefore(i) =>
                  LET due == now > ClaimedArchiveDate(tasks[i][2].completed_date[1])
                      old == now - tasks[i][2].created_date >= 366 * DayLen
                  IN  /\ tasks'[i][2].state =
                            IF ~due THEN "completed"
                            ELSE IF old THEN "dormant" ELSE "archived"
                      /\ (tasks[i][2].completed_date[1] = Wednesday
                            /\ now = FollowingSaturday) => ~due
                      /\ (tasks[i][2].completed_date[1] = Wednesday
                            /\ now = WednesdayThreeWeeksLater) => due]_vars

\* C7 witness: a pass on the Wednesday three weeks after the completion
\* Wednesday archived a recently created task.
C7_Witness ==
    /\ last.op = "check_old_tasks"
    /\ now = WednesdayThreeWeeksLater
    /\ tasks[1][2].completed_date = <<Wednesday>>
    /\ last.was[1] = "completed"
    /\ tasks[1][2].state = "archived"

\* C8, as claimed: a pass moves an archived task to dormant exactly when
\* more than 365 days have elapsed between its created_date and now.
C8_DormantAfter365Days ==
    [][last'.op = "check_old_tasks" =>
          \A i \in 1..Len(tasks) :
              tasks[i][2].state = "archived" =>
                  (tasks'[i][2].state = "dormant"
                     <=> now - tasks[i][2].created_date > 365 * DayLen)]_vars

\* C8, amended: a pass moves an archived task to dormant exactly when 366
\* days or more (more than 365 whole days) have elapsed between its
\* created_date and now, whenever it was completed; otherwise it stays
\* archived.
C8_DormantAfter365WholeDays ==
    [][last'.op = "check_old_tasks" =>
          \A i \in 1..Len(tasks) :
              tasks[i][2].state = "archived" =>
                  tasks'[i][2].state =
                      IF now - tasks[i][2].created_date >= 366 * DayLen
                      THEN "dormant" ELSE "archived"]_vars

\* C8 witness: a pass made an archived task dormant in the first second in
\* which 366 days had elapsed since its creation.
C8_Witness ==
    /\ last.op = "check_old_tasks"
    /\ last.was[1] = "archived"
    /\ tasks[1][2].state = "dormant"
    /\ now - tasks[1][2].created_date = 366 * DayLen

----------------------------------------------------------------------------
(* The schedule specification: slots given as ints and as strings, on two  *)
(* dates, saved on every change and read back at any time                  *)

DateArgs ==
    {[kind |-> k, iso |-> d] :
        k \in {"str", "QDate"}, d \in {"2024-06-03", "2024-06-04"}}
SlotArgs == {IntSlot(n) : n \in 0..MaxSlot} \cup {StrSlot(n) : n \in 0..MaxSlot}
TaskArgs == {"T", "U"}

ScheduleTask ==
    \E task_id \in TaskArgs, date \in DateArgs, slot \in SlotArgs :
        schedule_task(task_id, date, slot)

UnscheduleTask ==
    \E date \in DateArgs, slot \in SlotArgs : unschedule_task(date, slot)

NextSched ==
    \/ ScheduleTask
    \/ UnscheduleTask
    \/ load_data

SpecSched == Init /\ [][NextSched]_vars

----------------------------------------------------------------------------
(* Claims about the schedule *)

DateStrs == {date_str(d) : d \in DateArgs}

\* every (date, slot) other than (ds, slot) has the same occupant in sch2
\* as in sch1
OthersUnchanged(sch1, sch2, ds, slot) ==
    \A d \in DateStrs, s \in SlotArgs :
        (d # ds \/ s # slot) => Occupant(sch2, d, s) = Occupant(sch1, d, s)

\* C9: after schedule_task(T, d, s) the occupant of (d, s) is T, replacing
\* any previous occupant, and all other entries are unchanged; after
\* unschedule_task(d, s) the slot has no occupant; unschedule_task on an
\* empty (d, s) or an unknown date changes nothing.
C9_AssignAndClear ==
    [][/\ last'.op = "schedule_task" =>
             /\ Occupant(schedule', last'.date, last'.slot) = last'.id
             /\ OthersUnchanged(schedule, schedule', last'.date, last'.slot)
       /\ last'.op = "unschedule_task" =>
             /\ Occupant(schedule', last'.date, last'.slot) = None
             /\ OthersUnchanged(schedule, schedule', last'.date, last'.slot)
             /\ Occupant(schedule, last'.date, last'.slot) = None
                   => schedule' = schedule /\ file' = file /\ tasks' = tasks
      ]_vars

\* C9 witness: schedule_task has replaced another task in a slot while
\* another entry of the same date is filled.
C9_Witness ==
    /\ last.op = "schedule_task"
    /\ last.replaced \notin {None, last.id}
    /\ Occupant(schedule, last.date, last.slot) = last.id
    /\ \E s \in SlotArgs :
           s # last.slot /\ Occupant(schedule, last.date, s) # None

\* C10: a schedule entry assigned with slot s, an int or its string form,
\* round-trips through save and reload: after schedule_task(T, d, s) (which
\* saves) and load_data the occupant of (d, s) looked up with the same s is
\* T, and unschedule_task(d, s) with the same s removes the entry.
C10_SlotRoundTrip ==
    [][(last.op = "schedule_task" /\ last'.op = "load_data") =>
          /\ Occupant(schedule', last.date, last.slot) = last.id
          /\ \A s \in SlotArgs :
                Occupant(Unscheduled(schedule', last.date, last.slot),
                         last.date, s) # last.id]_vars

----------------------------------------------------------------------------
(* Claims about persistence *)

\* the (date, slot, task id) entries of a schedule
EntriesOf(sch) ==
    UNION {{<<sch[i][1], sch[i][2][j][1], sch[i][2][j][2]>> :
                j \in 1..Len(sch[i][2])} : i \in 1..Len(sch)}

RoundTripFields ==
    {"title", "parent_id", "description", "tags", "priority", "created_date",
     "completed_date", "state", "summary"}

\* C11: persisting the aggregate and reloading it with the same now yields
\* the same set of task ids, the same value of every task field (title,
\* parent_id, description, tags, priority, created_date, completed_date,
\* state, summary) and the same schedule entries as were in memory before
\* the save: a load_data that reads the file save_data wrote from the
\* memory at hand leaves all of these as they were.
C11_RoundTrip ==
    [][(last'.op = "load_data" /\ file = Saved(tasks, schedule, next_id)) =>
          /\ Keys(tasks') = Keys(tasks)
          /\ \A k \in Keys(tasks) : \A f \in RoundTripFields :
                Get(tasks', k)[f] = Get(tasks, k)[f]
          /\ EntriesOf(schedule') = EntriesOf(schedule)]_vars

----------------------------------------------------------------------------
(* The notes specification: within one second tasks are created with and  *)
(* without a title, their notes are edited, committed and restored, and    *)
(* the program is restarted at any time                                    *)

NotesTitleArgs == {"", "t"}
NotesTextArgs == {"", "n"}

CreateTitled == \E title \in NotesTitleArgs : create_task(title, None, "Medium")

NotesChanged ==
    \E task_id \in IdArgs, txt \in NotesTextArgs : on_notes_changed(task_id, txt)

CommitNotes == \E task_id \in IdArgs : commitNotes(task_id)

RestoreNotes == \E task_id \in IdArgs : restoreNotes(task_id)

\* update_task with a notes text, saved
UpdateNotes ==
    \E task_id \in IdArgs, txt \in NotesTextArgs :
        update_task(task_id, TRUE, "notes", txt)

NextNotes ==
    \/ CreateTitled
    \/ UpdateNotes
    \/ NotesChanged
    \/ CommitNotes
    \/ RestoreNotes
    \/ load_data

SpecNotes == Init /\ [][NextNotes]_vars

----------------------------------------------------------------------------
(* Claims about notes and creation *)

\* C12: notes committed for a task through the commit-notes action are the
\* notes that task carries after the next load: the notes file written on
\* commit is the one read when the task is materialized from the persisted
\* record (right after a commit that read gives the committed text), and
\* restore reads the same file.
C12_CommittedNotesLoaded ==
    [][/\ (last.op = "commitNotes" /\ last'.op = "load_data"
            /\ Has(tasks', last.id))
          => Get(tasks', last.id).notes = last.txt
       /\ last'.op = "commitNotes" =>
             (IF Has(notesFiles', last'.id)
              THEN Get(notesFiles', last'.id) ELSE "") = last'.txt
       /\ (last.op = "commitNotes" /\ last'.op = "restoreNotes"
            /\ last'.id = last.id)
          => last'.txt = last.txt]_vars

\* C13: create_task with an empty title is rejected: it reports a
\* validation failure to the caller and leaves the store (tasks, schedule,
\* next_id) and the persisted aggregate unchanged.
C13_EmptyTitleRejected ==
    [][(last'.op = "create_task" /\ last'.title = "") =>
          /\ last'.raised = "ValidationError"
          /\ tasks' = tasks
          /\ schedule' = schedule
          /\ next_id' = next_id
          /\ file' = file]_vars

----------------------------------------------------------------------------
(* Claims about validation *)

\* C14: in every state reachable through create_task and update_task every
\* stored task's priority is one of Low, Medium, High, Critical: a priority
\* outside the enumeration is stored as Medium or the call is rejected, and
\* never stored as given.
C14_PriorityInEnumeration ==
    \A i \in 1..Len(tasks) :
        tasks[i][2].priority \in {"Low", "Medium", "High", "Critical"}

\* C15: update_task, delete_task, mark_completed and move_tasks called with
\* a task id that is not in the store are silent no-ops: they raise no
\* error and leave tasks, schedule and the persisted aggregate unchanged.
C15_UnknownIdNoOp ==
    [][(/\ last'.op \in {"update_task", "delete_task", "mark_completed",
                          "move_tasks"}
        /\ ~Has(tasks, last'.id)) =>
          /\ last'.raised = None
          /\ tasks' = tasks
          /\ schedule' = schedule
          /\ file' = file]_vars

\* C19: in every state reachable by create_task, update_task, move_tasks
\* and delete_task the parent_id relation is acyclic: following parent_id
\* from any task reaches a root or a missing id and never returns to the
\* starting task.
C19_Acyclic ==
    \A k \in Keys(tasks) : k \notin Ancestors(tasks, k, Len(tasks))

----------------------------------------------------------------------------
(* The write-failure specification: one second of calls on one task and    *)
(* one date while the data file turns unwritable and writable again        *)

\* the data file becomes read-only (or its disk full), or writable again
DiskChanges ==
    /\ writable' = ~writable
    /\ last' = [op |-> "disk"]
    /\ UNCHANGED <<tasks, schedule, next_id, file, notesFiles, now>>

FailIdArgs == {NewId(0)}
FailPriority == "High"
FailParent == NewId(1)
FailDate == [kind |-> "str", iso |-> "2024-06-03"]

NextFail ==
    \/ DiskChanges
    \/ create_task("t", None, "Low")
    \/ \E task_id \in FailIdArgs : update_task(task_id, TRUE, "priority", FailPriority)
    \/ \E task_id \in FailIdArgs : move_tasks(task_id, None, FailParent)
    \/ \E task_id \in FailIdArgs : delete_task(task_id)
    \/ \E task_id \in FailIdArgs : mark_completed(task_id)
    \/ \E slot \in SlotArgs : schedule_task("T", FailDate, slot)
    \/ \E slot \in SlotArgs : unschedule_task(FailDate, slot)

SpecFail == Init /\ [][NextFail]_vars

----------------------------------------------------------------------------
(* Claims about write failures *)

\* C16: when writing the backing store fails during a mutating operation
\* (create_task, update_task, delete_task, mark_completed, move_tasks,
\* schedule_task, unschedule_task), the operation does not propagate the
\* error to the caller, and the in-memory state keeps the mutation.
C16_WriteFailureNotFatal ==
    [][~writable =>
          /\ last'.op \in {"create_task", "update_task", "delete_task",
                            "mark_completed", "move_tasks", "schedule_task",
                            "unschedule_task"}
                => last'.raised # "OSError"
          /\ last'.op = "create_task" =>
                Has(tasks', last'.ret) /\ next_id' = next_id + 1
          /\ (last'.op = "update_task" /\ Has(tasks, last'.id)) =>
                Get(tasks', last'.id).priority = FailPriority
          /\ (last'.op = "delete_task" /\ Has(tasks, last'.id)) =>
                ~Has(tasks', last'.id)
          /\ (last'.op = "mark_completed" /\ Has(tasks, last'.id)) =>
                Get(tasks', last'.id).state = "completed"
          /\ (last'.op = "move_tasks" /\ Has(tasks, last'.id)) =>
                Get(tasks', last'.id).parent_id = last'.newParent
          /\ last'.op = "schedule_task" =>
                Occupant(schedule', last'.date, last'.slot) = last'.id
          /\ last'.op = "unschedule_task" =>
                Occupant(schedule', last'.date, last'.slot) = None]_vars

----------------------------------------------------------------------------
(* The query specification: a store of one or two tasks with any texts,    *)
(* states and dates, asked for any keyword and any range                   *)

\* the tasks' dates and the ranges lie in the seconds 0..MaxTime
MaxTime == 2

QueryTitleArgs == {"Ab", "c"}
QueryDescriptionArgs == {"", "Bc"}
QueryNotesArgs == {"", "aB"}
KeywordArgs == {"", "B", "ab", "bc", "ba"}
TimeArgs == 0..MaxTime

\* a stored task created at second created: active while it has no
\* completed_date, completed or dormant once it has one
QueryTask(title, description, notes, state, created, completed) ==
    TaskInit(NewId(created), title, None, description, "Medium", <<>>,
             <<created>>, completed, state, notes, <<>>, created)

QueryTasks ==
    {QueryTask(title, description, notes, state, created, completed) :
        title \in QueryTitleArgs, description \in QueryDescriptionArgs,
        notes \in QueryNotesArgs, state \in {"active", "completed", "dormant"},
        created \in TimeArgs,
        completed \in {NoDate} \cup {<<t>> : t \in TimeArgs}}

\* the second task of the store, when there is one: it was created later
SecondTasks ==
    {QueryTask("Ab", "", "aB", state, created, completed) :
        state \in {"active", "dormant"}, created \in TimeArgs,
        completed \in {NoDate} \cup {<<t>> : t \in TimeArgs}}

WellFormed(t) ==
    /\ t.state = "active" <=> t.completed_date = NoDate
    /\ t.completed_date # NoDate => t.created_date <= t.completed_date[1]

InitQuery ==
    /\ \E t \in QueryTasks :
          /\ WellFormed(t)
          /\ \/ tasks = <<<<t.id, t>>>>
             \/ \E u \in SecondTasks :
                    /\ WellFormed(u)
                    /\ t.created_date < u.created_date
                    /\ tasks = <<<<t.id, t>>, <<u.id, u>>>>
    /\ schedule = <<>>
    /\ next_id = Len(tasks) + 1
    /\ file = Saved(tasks, schedule, next_id)
    /\ notesFiles = <<>>
    /\ now = MaxTime
    /\ writable = TRUE
    /\ last = [op |-> "init"]

SearchTasks ==
    \E keyword \in KeywordArgs, include_dormant \in BOOLEAN :
        search_tasks(keyword, include_dormant)

GetTasksWithNotesInRange ==
    \E start_date \in TimeArgs, end_date \in TimeArgs :
        get_tasks_with_notes_in_range(start_date, end_date)

NextQuery ==
    \/ SearchTasks
    \/ GetTasksWithNotesInRange

SpecQuery == InitQuery /\ [][NextQuery]_vars

----------------------------------------------------------------------------
(* Claims about the queries *)

SameIgnoringCase(a, b) ==
    a = b \/ {a, b} \in {{"A", "a"}, {"B", "b"}, {"C", "c"}}

\* needle occurs in hay at some offset, letter for letter up to case
OccursIgnoringCase(needle, hay) ==
    \E o \in 0..(Len(hay) - Len(needle)) :
        \A i \in 1..Len(needle) : SameIgnoringCase(hay[o + i], needle[i])

\* C17: search_tasks(keyword, include_dormant) returns exactly the tasks
\* for which keyword, compared case-insensitively, is a substring of the
\* title, the description or the notes, and whose state is not dormant
\* unless include_dormant is true; it returns each matching task once and
\* changes no state.
C17_SearchExact ==
    [][last'.op = "search_tasks" =>
          /\ \A i \in 1..Len(tasks) :
                LET t == tasks[i][2]
                    wanted ==
                        /\ t.state # "dormant" \/ last'.include_dormant
                        /\ \E f \in {"title", "description", "notes"} :
                              OccursIgnoringCase(Letters(last'.keyword),
                                                 Letters(t[f]))
                IN  Count(last'.ret, tasks[i][1]) = IF wanted THEN 1 ELSE 0
          /\ \A j \in 1..Len(last'.ret) : Has(tasks, last'.ret[j])
          /\ UNCHANGED <<tasks, schedule, next_id, file, notesFiles>>]_vars

\* C17 witness: a search for "ab" without the dormant tasks returned the one
\* task that matches only by its notes "aB", and not the dormant task
\* titled "Ab".
C17_Witness ==
    /\ last.op = "search_tasks"
    /\ last.keyword = "ab"
    /\ ~last.include_dormant
    /\ Len(tasks) = 2
    /\ tasks[1][2].title = "c"
    /\ tasks[1][2].description = ""
    /\ tasks[1][2].notes = "aB"
    /\ tasks[2][2].title = "Ab"
    /\ tasks[2][2].state = "dormant"
    /\ last.ret = <<tasks[1][1]>>

\* the tasks a notes shortlist over a set of dates has to return: not
\* dormant, with notes, created or completed at one of the dates
InShortlist(t, dates) ==
    /\ t.state # "dormant"
    /\ t.notes # ""
    /\ \/ t.created_date \in dates
       \/ t.completed_date # NoDate /\ t.completed_date[1] \in dates

\* C18, as claimed: get_tasks_with_notes_in_range(start, end) returns
\* exactly the non-dormant tasks with non-empty notes whose created_date or
\* completed_date lies in the half-open interval [start, end): a task whose
\* only qualifying date equals end is not returned, and no task is returned
\* twice.
C18_HalfOpenRange ==
    [][last'.op = "get_tasks_with_notes_in_range" =>
          \A i \in 1..Len(tasks) :
              Count(last'.ret, tasks[i][1]) =
                  IF InShortlist(tasks[i][2], last'.start..(last'.end - 1))
                  THEN 1 ELSE 0]_vars

\* C18, amended: get_tasks_with_notes_in_range(start, end) returns exactly
\* the non-dormant tasks with non-empty notes whose created_date or
\* completed_date lies in the closed interval [start, end]: a task whose
\* only qualifying date equals end is returned, and no task is returned
\* twice.
C18_ClosedRange ==
    [][last'.op = "get_tasks_with_notes_in_range" =>
          /\ \A i \in 1..Len(tasks) :
                Count(last'.ret, tasks[i][1]) =
                    IF InShortlist(tasks[i][2], last'.start..last'.end)
                    THEN 1 ELSE 0
          /\ \A j \in 1..Len(last'.ret) : Has(tasks, last'.ret[j])]_vars

\* C18 witness: the shortlist returned, once, a task created before start
\* and completed exactly at end, and a second task created within the
\* range.
C18_Witness ==
    /\ last.op = "get_tasks_with_notes_in_range"
    /\ Len(tasks) = 2
    /\ tasks[1][2].created_date < last.start
    /\ tasks[1][2].completed_date = <<last.end>>
    /\ last.start < last.end
    /\ last.ret = <<tasks[1][1], tasks[2][1]>>

----------------------------------------------------------------------------
(* Claims about the calendar weeks of the lifecycle *)

WeekLen == 7 * DayLen

\* the Monday 00:00 that ends the n-th calendar week after the week
\* (Monday to Sunday) that contains second t
EndOfWeekAfter(t, n) == (t \div WeekLen) * WeekLen + (n + 1) * WeekLen

\* C20, as claimed: a completed task is not archived by a lifecycle pass
\* until now has passed the end of the second calendar week following the
\* week that contains completed_date; for every now up to the end of that
\* week the pass leaves the task in state completed.
C20_CompletedUntilSecondWeekEnds ==
    [][last'.op = "check_old_tasks" =>
          \A i \in 1..Len(tasks) :
              (/\ CompletedBefore(i)
               /\ now <= EndOfWeekAfter(tasks[i][2].completed_date[1], 2))
                  => tasks'[i][2].state = "completed"]_vars

\* C20, amended: a completed task is not archived by a lifecycle pass
\* until now has passed the end of the first calendar week following the
\* week that contains completed_date; for every now up to the end of that
\* week the pass leaves the task in state completed.
C20_CompletedUntilNextWeekEnds ==
    [][last'.op = "check_old_tasks" =>
          \A i \in 1..Len(tasks) :
              (/\ CompletedBefore(i)
               /\ now <= EndOfWeekAfter(tasks[i][2].completed_date[1], 1))
                  => tasks'[i][2].state = "completed"]_vars

\* C20 witness: a pass on the last Sunday of the week after the completion
\* week left a task completed that was completed on a Monday and created
\* almost a year before.
C20_Witness ==
    /\ last.op = "check_old_tasks"
    /\ last.was[1] = "completed"
    /\ tasks[1][2].state = "completed"
    /\ tasks[1][2].completed_date = <<AtNoon(0)>>
    /\ tasks[1][2].created_date = AtNoon(0 - 350)
    /\ now = AtNoon(13) + 1

----------------------------------------------------------------------------
(* Claims about the order of the states *)

\* the place of a state in the order active, completed, archived, dormant
StateRank(state) ==
    CASE state = "active" -> 0
      [] state = "completed" -> 1
      [] state = "archived" -> 2
      [] state = "dormant" -> 3

\* C21: a lifecycle pass never moves a task backward in the order active,
\* completed, archived, dormant: for every task and every now the state
\* after check_old_tasks is the same as or later than the state before
\* it, an active task stays active, and a dormant task stays dormant.
C21_PassNeverBackward ==
    [][last'.op = "check_old_tasks" =>
          \A i \in 1..Len(tasks) :
              /\ StateRank(tasks'[i][2].state) >= StateRank(tasks[i][2].state)
              /\ tasks[i][2].state = "active" => tasks'[i][2].state = "active"
              /\ tasks[i][2].state = "dormant" => tasks'[i][2].state = "dormant"]_vars

\* C21 witness: a pass found a dormant task that was created within the
\* year, and left it dormant.
C21_Witness ==
    /\ last.op = "check_old_tasks"
    /\ last.was[1] = "dormant"
    /\ tasks[1][2].state = "dormant"
    /\ now - tasks[1][2].created_date < 365 * DayLen

\* C22: completed_date is set exactly once: after the first mark_completed
\* on a task no later operation (a second mark_completed, a lifecycle pass
\* that archives it or makes it dormant, a save and reload) changes or
\* clears that task's completed_date.
C22_CompletedDateSetOnce ==
    [][\A k \in Keys(tasks) :
          (/\ Get(tasks, k).state # "active"
           /\ Get(tasks, k).completed_date # NoDate
           /\ Has(tasks', k))
              => Get(tasks', k).completed_date = Get(tasks, k).completed_date]_vars

\* C29: across any interleaving of create_task, mark_completed, lifecycle
\* passes, delete_task and save/reload, a task's state never moves backward
\* in the order active, completed, archived, dormant; in particular
\* mark_completed on an archived or dormant task does not return it to
\* completed.
C29_NeverBackward ==
    [][\A k \in Keys(tasks) :
          Has(tasks', k) =>
              StateRank(Get(tasks', k).state) >= StateRank(Get(tasks, k).state)]_vars

\* C26: in every reachable state in which no deferred (save=False) update
\* is pending, the persisted aggregate equals the in-memory aggregate
\* (tasks, schedule, next_id): every state change made by an operation,
\* including the lifecycle transitions applied when the store is loaded,
\* has been written by a full rewrite.  (No call of the lifecycle
\* specification defers its save.)
C26_FileEqualsMemory ==
    file = Saved(tasks, schedule, next_id)

----------------------------------------------------------------------------
(* Claims about slots that are already taken *)

\* C23: schedule_task(T, d2, s2) for a task T that already occupies another
\* slot (d1, s1) leaves the entry at (d1, s1) unchanged, so T afterwards
\* occupies both slots; of the two schedule calls only an explicit
\* unschedule_task(d1, s1) removes the old entry.
C23_OldSlotKept ==
    [][/\ last'.op = "schedule_task" =>
             \A d \in DateStrs, s \in SlotArgs :
                 (/\ d # last'.date \/ s # last'.slot
                  /\ Occupant(schedule, d, s) = last'.id)
                     => Occupant(schedule', d, s) = last'.id
       /\ last'.op \in {"schedule_task", "unschedule_task"} =>
             \A d \in DateStrs, s \in SlotArgs :
                 (/\ Occupant(schedule, d, s) # None
                  /\ Occupant(schedule', d, s) = None)
                     => /\ last'.op = "unschedule_task"
                        /\ last'.date = d
                        /\ last'.slot = s]_vars

\* C23 witness: schedule_task has put a task into an empty slot of one date
\* while the task occupies a slot of the other date, and it occupies both.
C23_Witness ==
    /\ last.op = "schedule_task"
    /\ last.replaced = None
    /\ Occupant(schedule, last.date, last.slot) = last.id
    /\ \E d \in DateStrs, s \in SlotArgs :
           d # last.date /\ Occupant(schedule, d, s) = last.id

----------------------------------------------------------------------------
(* The identity specification: root tasks are created, given another id    *)
(* by update_task, deleted, and the program is restarted at any time       *)

UpdateId ==
    \E task_id \in IdArgs, id \in IdArgs : update_task(task_id, TRUE, "id", id)

NextId ==
    \/ Tick
    \/ CreateTaskOf({None}, {"Low"})
    \/ UpdateId
    \/ DeleteTask
    \/ load_data

SpecId == Init /\ [][NextId]_vars

----------------------------------------------------------------------------
(* Claims about the fields of the persisted record *)

\* C24: the persisted Task record written by save_data does not contain
\* the task's notes text: notes edited in memory (update_task with
\* notes=...) never appear in the persisted aggregate, only in the notes
\* files.
C24_NotesNotPersisted ==
    file # NoFile =>
        \A i \in 1..Len(file[1].tasks) :
            "notes" \in DOMAIN file[1].tasks[i] => file[1].tasks[i].notes = ""

\* C25: a task's id is immutable after creation: no sequence of operations,
\* including update_task called with an id field, changes the id of a
\* stored task, so in every reachable state each key k of the task map maps
\* to a task whose id is k.
C25_IdIsKey ==
    \A i \in 1..Len(tasks) : tasks[i][2].id = tasks[i][1]

----------------------------------------------------------------------------
(* Claims about dangling parents *)

\* C27: a task whose parent_id is set but references no task in the store
\* (after load, create_task, update_task or move_tasks with an unknown
\* parent) is treated as a root: get_root_tasks() returns it.  (No query
\* of the model can raise.)
C27_DanglingIsRoot ==
    \A i \in 1..Len(tasks) :
        (/\ tasks[i][2].parent_id # None
         /\ ~Has(tasks, tasks[i][2].parent_id))
            => Count(get_root_tasks(tasks), tasks[i][1]) = 1

----------------------------------------------------------------------------
(* The drop specification: one stored task is dropped onto the schedule    *)
(* table and dragged from cell to cell while the data file turns           *)
(* unwritable and writable again                                           *)

DropDateArgs == {d \in DateArgs : d.kind = "str"}
DropSlotArgs == {StrSlot(n) : n \in 0..MaxSlot}

\* schedule_drop, first branch: a task dragged from the tree is assigned
\* when it is a stored task
drop_from_tree(task_id, date, slot) ==
    /\ Has(tasks, task_id)
    /\ schedule_task(task_id, date, slot)

\* schedule_drop, second branch: the item of the source cell is
\* unscheduled, then scheduled at the cell under the cursor; nothing
\* catches the OSError of either save_data, and the second is not reached
\* when the first raises.  The file can turn unwritable between the two.
schedule_drop(old_date, source_slot, new_date, slot) ==
    LET task_id == Occupant(schedule, date_str(old_date), source_slot)
        cleared == Unscheduled(schedule, date_str(old_date), source_slot)
        moved == Scheduled(cleared, date_str(new_date), slot, task_id)
    IN  /\ task_id # None
        /\ Has(tasks, task_id)
        /\ IF ~writable
           THEN /\ schedule' = cleared
                /\ UNCHANGED <<file, writable>>
           ELSE /\ schedule' = moved
                /\ \E ok \in BOOLEAN :
                      /\ writable' = ok
                      /\ file' = IF ok THEN Saved(tasks, moved, next_id)
                                 ELSE Saved(tasks, cleared, next_id)
        /\ last' = [op |-> "schedule_drop", id |-> task_id,
                    from |-> <<date_str(old_date), source_slot>>,
                    to |-> <<date_str(new_date), slot>>,
                    raised |-> IF writable' THEN None ELSE "OSError"]
        /\ UNCHANGED <<tasks, next_id, notesFiles, now>>

DropFromTree ==
    \E task_id \in IdArgs, date \in DropDateArgs, slot \in DropSlotArgs :
        drop_from_tree(task_id, date, slot)

ScheduleDrop ==
    \E old_date \in DropDateArgs, source_slot \in DropSlotArgs,
       new_date \in DropDateArgs, slot \in DropSlotArgs :
        schedule_drop(old_date, source_slot, new_date, slot)

NextDrop ==
    \/ DiskChanges
    \/ create_task("t", None, "Medium")
    \/ DropFromTree
    \/ ScheduleDrop
    \/ load_data

SpecDrop == Init /\ [][NextDrop]_vars

----------------------------------------------------------------------------
(* Claims about the drop *)

\* C28: moving a scheduled task from (d1, s1) to (d2, s2) as the drop
\* handler sequences it (unschedule_task on the source, then schedule_task
\* on the destination) never loses the task: in every state after the move
\* attempt, including one where a write fails, the task occupies the
\* source or the destination.
C28_DropNeverLoses ==
    [][last'.op = "schedule_drop" =>
          \/ Occupant(schedule', last'.from[1], last'.from[2]) = last'.id
          \/ Occupant(schedule', last'.to[1], last'.to[2]) = last'.id]_vars

----------------------------------------------------------------------------
(* The restart specification: the one task of the lifecycle specification  *)
(* is marked completed at most once more (while it is active), the clock   *)
(* keeps advancing to the end of the days covered, and the program keeps   *)
(* being restarted                                                         *)

\* the completion command given to a task that is still active
MarkActiveCompleted ==
    \E task_id \in {"0"} :
        /\ Has(tasks, task_id)
        /\ Get(tasks, task_id).state = "active"
        /\ mark_completed(task_id)

NextLive ==
    \/ TickLife
    \/ load_data
    \/ MarkActiveCompleted

SpecLive ==
    InitLife /\ [][NextLive]_vars /\ WF_vars(TickLife) /\ WF_vars(load_data)

----------------------------------------------------------------------------
(* Claims about restarts *)

\* the last second of the clock
LastNow == AtNoon(MaxDay) + 1

\* the stored task is completed and its archive date passes before the
\* clock ends
CompletedAndDue ==
    /\ tasks[1][2].state = "completed"
    /\ tasks[1][2].completed_date # NoDate
    /\ ArchiveDate(tasks[1][2].completed_date[1]) < LastNow

\* only a restart or the completion command changes a task's state
OnlyLoadsMoveStates ==
    [][tasks'[1][2].state # tasks[1][2].state
          => last'.op \in {"load_data", "mark_completed"}]_vars

\* C30, as claimed: if a task is marked completed and thereafter neither
\* deleted nor marked completed again, and time keeps advancing while the
\* store keeps being loaded, then the task eventually reaches state
\* archived, and if more than 365 days pass since its created_date it
\* eventually reaches dormant; while the store is not reloaded no
\* automatic transition happens.
C30_EventuallyArchived ==
    /\ CompletedAndDue ~> tasks[1][2].state = "archived"
    /\ (CompletedAndDue /\ LastNow - tasks[1][2].created_date > 365 * DayLen)
          ~> tasks[1][2].state = "dormant"
    /\ OnlyLoadsMoveStates

\* C30, amended: under the same conditions the task eventually leaves
\* state completed: it reaches archived, or dormant without being seen
\* archived when 366 days or more since its created_date have passed at
\* the load that finds it due; and once 366 days or more have passed
\* since its created_date it eventually reaches dormant; while the store
\* is not reloaded no automatic transition happens.
C30_EventuallyArchivedOrDormant ==
    /\ CompletedAndDue ~> tasks[1][2].state \in {"archived", "dormant"}
    /\ (CompletedAndDue /\ LastNow - tasks[1][2].created_date >= 366 * DayLen)
          ~> tasks[1][2].state = "dormant"
    /\ OnlyLoadsMoveStates

\* C30 witness: a restart has read a task saved as completed and, its
\* archive date passed, holds it archived.
C30_Witness ==
    /\ last.op = "load_data"
    /\ file[1].tasks[1].state = "completed"
    /\ file[1].tasks[1].completed_date # NoDate
    /\ now > ArchiveDate(file[1].tasks[1].completed_date[1])
    /\ tasks[1][2].state = "archived"

====
